---- MODULE Spec2Model ----
(***************************************************************************)
(* Model of PortfolioBrain (src/algo.py), the adaptive request-timeout     *)
(* estimator (Jacobson smoothing + Karn backoff + soft decay on idleness), *)
(* and of its caller, the /get_weather handler of src/app.py with its      *)
(* in-memory cache.                                                        *)
(*                                                                         *)
(* Numbers.  The program computes with floats (seconds).  The model uses   *)
(* exact fixed-point integers: one second is Unit = 5 * 2^Prec units, so   *)
(* 0.1 s, 0.5 s and every dyadic fraction down to 2^-Prec are exact.  A    *)
(* successful update divides by 8 and by 4; it is enabled only for         *)
(* latencies for which both divisions are exact, so every value the model  *)
(* holds is the exact real value the formulas of the code denote.  Three   *)
(* workloads, fast, outage and web, report 0.1 s again and again; there    *)
(* the two quotients are rounded down to the model's resolution            *)
(* (2^-Prec / 5 s), as the program's floats round to theirs.               *)
(* Time is in whole seconds.                                               *)
(*                                                                         *)
(* The specifications share the state and the operators:                   *)
(*   Spec        whole calls, atomic as the lock makes them, mixed         *)
(*               latencies (0.1 s, 5 s, the current mean);                 *)
(*   SpecSteady  the same calls under a steady workload: one slow answer   *)
(*               of 11.25 s, then answers that take exactly the mean;      *)
(*   SpecWorkloads  the same calls under every workload: mixed, steady,    *)
(*               fast (50 answers of 0.1 s), outage (the same 50 answers,  *)
(*               then failures only) and zero (answers of 0 s);            *)
(*   SpecConc    worker threads running the methods statement by           *)
(*               statement, excluded from each other by self._lock only;   *)
(*   SpecConcFair  the same threads under a fair scheduler: a thread       *)
(*               inside a method keeps running, a thread that waits for    *)
(*               the lock gets it if it is free again and again;           *)
(*   SpecWeb     the /get_weather handler step by step: validation, cache  *)
(*               lookup, brain.get_timeout(), the upstream call and its    *)
(*               outcome, brain.update(..), _cache_set, the requests       *)
(*               served one at a time;                                     *)
(*   SpecWebConc the same handler on several worker threads, the steps of  *)
(*               overlapping requests interleaved.                         *)
(* In Spec and SpecSteady the two readings of time.time() inside one       *)
(* get_timeout() are the same instant (the call does arithmetic only); in  *)
(* SpecConc the clock may advance between any two statements.              *)
(* round(x, 3) is modelled on the exact value, ties to even; the float the *)
(* program rounds may fall on either side of a tie.                        *)
(***************************************************************************)
EXTENDS Integers, FiniteSets, Sequences, TLC

\* ---------------------------------------------------------------- bounds
Prec == 20            \* binary digits kept after the point
TickStep == 300       \* seconds the clock advances in one Tick
MaxTime == 1500       \* the clock stops advancing here
MaxVar == 8           \* operations that would push rttvar above this many seconds are not explored
MaxFail == 2          \* failed updates explored in one run of the mixed workload
MaxSteadyFail == 1    \* failed updates explored in one run of the steady workload
MaxSucc == 2          \* successful updates explored in one run of the mixed workload
MaxSteady == 9        \* successful updates explored in one run of the steady workload
NThreads == 2         \* worker threads sharing the estimator
MaxCalls == 2         \* calls the worker threads issue in one concurrent run
MaxZero == 6          \* successful updates explored in one run of the zero workload
MaxOutage == 5        \* failed updates in a row explored in one run of the outage workload
NWorkers == 2         \* worker threads serving /get_weather
MaxRequests == 4      \* requests served in one run of the handlers
MaxOverlap == 3       \* requests served in one run of overlapping handlers
WebStep == 120        \* seconds the clock advances in one web_tick
MaxWebTime == 240     \* the clock of the handlers' runs stops advancing here
cache_max_items == 2  \* settings.cache_max_items (CACHE_MAX_ITEMS; 600 when unset), scaled down

Unit == 5 * (2 ^ Prec)

\* ------------------------------------------------------------- constants
TIMEOUT_MIN == 1 * Unit
TIMEOUT_MAX == 10 * Unit
DEFAULT_TIMEOUT == 3 * Unit
MEMORY_TTL == 600
\* settings.cache_ttl_s
cache_ttl_s == 120
\* the number of answers of the fast workload (test_jacobson_update_success)
FAST_RUN == 50
\* the uncertainty a fresh estimator starts with, were it 1.0 s
INIT_RTTVAR_one == 1 * Unit

INIT_RTTVAR == Unit \div 2
KARN_RTTVAR_STEP == Unit \div 2
DECAY_RTTVAR_FLOOR == 1 * Unit

Min(a, b) == IF a <= b THEN a ELSE b
Max(a, b) == IF a >= b THEN a ELSE b
Abs(a) == IF a >= 0 THEN a ELSE 0 - a

VARIABLES
    srtt,               \* self.srtt
    rttvar,             \* self.rttvar
    current_timeout,    \* self.current_timeout
    last_request_time,  \* self.last_request_time
    now,                \* the value time.time() returns
    call,               \* the last completed call of the estimator, as its caller saw it
    failures,           \* failed updates left to explore
    budget,             \* successful updates left to explore
    workload,           \* which latencies the caller reports in this run
    lock,               \* self._lock: the thread that holds it, 0 when free
    thread,             \* per worker thread: where it is in its call, its arguments and locals
    committed,          \* <<srtt, rttvar, current_timeout>> as the last complete operation left them
    calls,              \* calls the worker threads may still issue
    cache,              \* _cache: its items <<key, expires_at>> in insertion order
    worker,             \* per worker of /get_weather: where it is in the handler, what it has done
    requests,           \* requests the workers may still take
    stored,             \* per cache key: when a payload was last stored, and whether eviction removed it since
    api_key,            \* settings.api_key is set
    pool                \* worker threads the server runs in this run

vars == <<srtt, rttvar, current_timeout, last_request_time, now, call, failures, budget, workload,
          lock, thread, committed, calls, cache, worker, requests, stored, api_key, pool>>

seq == <<call, failures, budget>>
conc == <<lock, thread, committed, calls>>
web == <<cache, worker, requests, stored, api_key, pool>>

Threads == 1 .. NThreads

\* ------------------------------------------------------- pure functions
\* rto = srtt + 4 * rttvar, clamped
calc_timeout_unsafe(s, v) == Max(TIMEOUT_MIN, Min(TIMEOUT_MAX, s + (4 * v)))

\* the soft decay without its floor of 1.0 s
decay_rttvar_no_floor(v) == v * 2

\* the soft decay of the uncertainty
decay_rttvar(v) == Max(v * 2, DECAY_RTTVAR_FLOOR)

\* the Karn backoff without the ceiling
penalty_timeout_uncapped(ct) == ct * 2

\* a backoff that adds one second instead of doubling
penalty_timeout_additive(ct) == Min(TIMEOUT_MAX, ct + Unit)

\* a backoff that grows by half only
penalty_timeout_slow(ct) == Min(TIMEOUT_MAX, ct + (ct \div 2))

\* the Karn backoff of the timeout
penalty_timeout(ct) == Min(TIMEOUT_MAX, ct * 2)

\* a failure that doubles the uncertainty instead of adding 0.5 s
penalty_rttvar_double(v) == v * 2

\* the Karn increase of the uncertainty
penalty_rttvar(v) == v + KARN_RTTVAR_STEP

\* diff = observed_latency - self.srtt
jacobson_diff(L, s) == L - s

\* the mean smoothed with a gain of 0.25
jacobson_srtt_quarter(s, diff) == s + (diff \div 4)

\* a mean that is replaced by the sample (gain 1 instead of 0.125)
jacobson_srtt_replace(s, diff) == s + diff

\* self.srtt + 0.125 * diff
jacobson_srtt(s, diff) == s + (diff \div 8)

\* a deviation smoothed without the absolute value
jacobson_rttvar_signed(v, diff) == v + ((diff - v) \div 4)

\* a deviation that accumulates instead of being smoothed
jacobson_rttvar_no_decay(v, diff) == v + (Abs(diff) \div 4)

\* self.rttvar + 0.25 * (abs(diff) - self.rttvar)
jacobson_rttvar(v, diff) == v + ((Abs(diff) - v) \div 4)

\* the success branch with the deviation taken against the mean after its update
jacobson_new_mean(L, s, v) ==
    LET s2 == jacobson_srtt(s, jacobson_diff(L, s))
        v2 == jacobson_rttvar(v, jacobson_diff(L, s2))
    IN  [srtt |-> s2, rttvar |-> v2, current_timeout |-> calc_timeout_unsafe(s2, v2)]

\* the success branch of update: the new srtt, rttvar and current_timeout
jacobson(L, s, v) ==
    LET diff == jacobson_diff(L, s)
        s2 == jacobson_srtt(s, diff)
        v2 == jacobson_rttvar(v, diff)
    IN  [srtt |-> s2, rttvar |-> v2, current_timeout |-> calc_timeout_unsafe(s2, v2)]

\* the latencies for which 0.125 * diff and 0.25 * (...) are exact in the model
Exact(L, s, v) ==
    /\ jacobson_diff(L, s) % 8 = 0
    /\ (Abs(jacobson_diff(L, s)) - v) % 4 = 0

\* an idle test that fires already at the threshold
is_idle_inclusive(t, last) == (t - last) >= MEMORY_TTL

\* the idle test of get_timeout
is_idle(t, last) == (t - last) > MEMORY_TTL

\* round(x, 3): the number of thousandths nearest to x, ties to even
RoundHalfEven(n, d) ==
    LET q == n \div d
        r == n % d
    IN  IF 2 * r < d THEN q
        ELSE IF 2 * r > d THEN q + 1
        ELSE q + (q % 2)

Round3(x) == ((x \div Unit) * 1000) + RoundHalfEven((x % Unit) * 25, 2 ^ (Prec - 3))

\* round(seconds, 1): the number of tenths of a second
Round1(sec) == sec * 10

\* the dictionary get_stats builds
stats_of(s, v, ct, idle) ==
    [srtt |-> Round3(s), rttvar |-> Round3(v), timeout |-> Round3(ct), idle_sec |-> Round1(idle)]

\* observed latencies of the mixed workload: 0.1 s, 5 s, and one equal to the current mean
\* observed latencies of the steady workload: a slow answer of 11.25 s on the fresh estimator,
\* then answers that take exactly the current mean
\* observed latencies of the fast workload: every answer takes 0.1 s
\* observed latencies of the zero workload: every answer takes no time at all
\* observed latencies of the outage workload: as the fast workload; the failures come after it
\* observed latencies of the web workload: every answer or failure takes 0.1 s
Latencies(w, s) ==
    IF w = "mixed" THEN {Unit \div 10, 5 * Unit, s}
    ELSE IF w \in {"fast", "outage"} THEN {Unit \div 10}
    ELSE IF w = "web" THEN {Unit \div 10}
    ELSE IF w = "zero" THEN {0}
    ELSE IF s = DEFAULT_TIMEOUT THEN {(45 * Unit) \div 4}
    ELSE {s}

\* a lock that never excludes anybody
lock_always_free(l) == TRUE

\* a lock that excludes only while the first worker holds it
lock_first_only(l) == l # 2

\* threading.Lock: acquire succeeds only on a free lock
lock_free(l) == l = 0

\* ====================================================== the /get_weather handler
\* src/app.py: the Flask handler that asks the estimator for a timeout, calls the
\* upstream weather service, reports the outcome to the estimator and caches good
\* answers.  Worker threads run the handler step by step; the estimator's methods
\* are the atomic calls above (self._lock makes them so).

Workers == 1 .. NWorkers

\* request.args.get(..) of a parameter that is absent, or empty
None == ""

\* str.strip() on the query strings explored
strip(raw) == IF raw = " lyon " THEN "lyon" ELSE raw

\* len() of the stripped query strings explored
len(city) == IF city = "" THEN 0 ELSE IF city = "L" THEN 1 ELSE 4

\* str.lower() on the city names explored
lower(city) ==
    IF city \in {"Lyon", "LYON", "lyon"} THEN "lyon"
    ELSE IF city \in {"Nice", "nice"} THEN "nice"
    ELSE city

\* _parse_city: the stripped name, None when absent, empty, shorter than 2 or longer than 64
parse_city(raw) ==
    IF raw = None THEN None
    ELSE IF strip(raw) = "" THEN None
    ELSE IF len(strip(raw)) < 2 \/ len(strip(raw)) > 64 THEN None
    ELSE strip(raw)

\* _parse_lat_lon: the pair (in 1e-5 degree), <<>> when absent or out of range
parse_lat_lon(raw) ==
    IF raw = <<>> THEN <<>>
    ELSE IF raw[1] < 0 - 9000000 \/ raw[1] > 9000000 THEN <<>>
    ELSE IF raw[2] < 0 - 18000000 \/ raw[2] > 18000000 THEN <<>>
    ELSE raw

\* f"{x:.4f}": 1e-5 degrees rounded to 1e-4 degrees
Round4(x) == RoundHalfEven(x, 10)

NoKey == [kind |-> "none", name |-> "", lat |-> 0, lon |-> 0]

\* _cache_key: city:<lower-cased name>, else coord:<lat to 4 decimals>,<lon to 4 decimals>
cache_key(city, latlon) ==
    IF city # None THEN [kind |-> "city", name |-> lower(city), lat |-> 0, lon |-> 0]
    ELSE [kind |-> "coord", name |-> "", lat |-> Round4(latlon[1]), lon |-> Round4(latlon[2])]

\* the query strings explored: city= and lat=, lon= of the request
Queries ==
    { [city |-> "Lyon", latlon |-> <<>>],
      [city |-> "LYON", latlon |-> <<>>],
      [city |-> " lyon ", latlon |-> <<4576001, 483570>>],
      [city |-> "Nice", latlon |-> <<>>],
      [city |-> None, latlon |-> <<4576001, 483570>>],
      [city |-> None, latlon |-> <<4576004, 483570>>],
      [city |-> "L", latlon |-> <<>>],
      [city |-> None, latlon |-> <<9100000, 0>>] }

valid_query(q) == parse_city(q.city) # None \/ parse_lat_lon(q.latlon) # <<>>

key_of(q) == cache_key(parse_city(q.city), parse_lat_lon(q.latlon))

Keys == { key_of(q) : q \in { r \in Queries : valid_query(r) } }

\* what session.get can end with: a response with a status code, requests.Timeout,
\* or another requests.RequestException
Outcomes == {"200", "404", "401", "429", "500", "403", "timeout", "error"}

\* the status codes that the handler answers before raise_for_status
Handled == {"404", "401", "429", "500"}

\* the status the handler returns to its client for an upstream outcome that ends the request
status_for(o) ==
    IF o = "404" THEN 404
    ELSE IF o = "401" THEN 502
    ELSE IF o = "429" THEN 503
    ELSE IF o = "500" THEN 502
    ELSE IF o = "timeout" THEN 504
    ELSE 502

\* ---- the cache: a dict, kept as the sequence of its items in insertion order
cache_index(c, k) ==
    IF \E i \in 1 .. Len(c) : c[i].key = k
    THEN CHOOSE i \in 1 .. Len(c) : c[i].key = k
    ELSE 0

\* _cache.pop(k, None) for every k of ks
cache_pop(c, ks) == SelectSeq(c, LAMBDA e : e.key \notin ks)

\* an expiry test that never fires
expired_never(t, expires_at) == FALSE

\* an expiry test that drops the entry already at its expiry time
expired_at_boundary(t, expires_at) == t >= expires_at

\* _cache_get: time.time() > expires_at
expired(t, expires_at) == t > expires_at

\* the number of keys the eviction loop pops: indices 0 .. max(1, cache_max_items // 10)
evict_count(n) == Min(n, Max(1, cache_max_items \div 10) + 1)

\* _cache[key] = (expires_at, payload): in place when the key is there, else appended
cache_put(c, k, e) ==
    IF cache_index(c, k) # 0
    THEN [c EXCEPT ![cache_index(c, k)] = [key |-> k, expires_at |-> e]]
    ELSE Append(c, [key |-> k, expires_at |-> e])

\* the answers the upstream gives in a run: every one when the requests are
\* served one at a time, one of each branch of the handler when they overlap
Answers(p) == IF p = 1 THEN Outcomes ELSE {"200", "404", "timeout"}

\* a worker outside any request
IdleWorker ==
    [pc |-> "idle", key |-> NoKey, outcome |-> "none", status |-> 0, cached |-> FALSE,
     timeout |-> 0, gts |-> 0, ups |-> <<>>, upstream |-> 0, snapshot |-> <<>>,
     body |-> "none", ops |-> {}]

NeverStored == [at |-> 0 - 1, evicted |-> FALSE]

\* the web state of the runs that call the estimator directly
NoWeb ==
    /\ cache = <<>>
    /\ worker = [w \in Workers |-> IdleWorker]
    /\ requests = 0
    /\ stored = [k \in Keys |-> NeverStored]
    /\ api_key = TRUE
    /\ pool = 1

\* ------------------------------------------------------------------ Init
NoStats == [srtt |-> 0, rttvar |-> 0, timeout |-> 0, idle_sec |-> 0]

\* no idle decay since the last update
NoEpisode == [at |-> 0 - 1, ret |-> 0]

\* the record of a completed call; episode remembers the last call that applied idle decay
\* (its time and the value it returned) until the next update; streak counts the failed
\* updates since the last successful update or idle decay
Called(op, ret, decayed, L, st) ==
    [op |-> op, at |-> now, ret |-> ret, decayed |-> decayed, latency |-> L,
     prev |-> call.op, pre |-> <<srtt, rttvar, current_timeout>>, stats |-> st,
     streak |-> IF op = "update_failure" THEN call.streak + 1
                ELSE IF op = "update_success" \/ decayed THEN 0
                ELSE call.streak,
     episode |-> IF op \in {"update_success", "update_failure"} THEN NoEpisode
                 ELSE IF decayed THEN [at |-> now, ret |-> ret]
                 ELSE call.episode]

\* a worker thread outside any call
IdleThread ==
    [pc |-> "idle", L |-> 0, success |-> FALSE, diff |-> 0, snap |-> NoStats, seen |-> <<0, 0, 0>>,
     result |-> NoStats, ret |-> 0, done |-> "none"]

Constructed ==
    /\ srtt = DEFAULT_TIMEOUT
    /\ rttvar = INIT_RTTVAR
    /\ current_timeout = calc_timeout_unsafe(DEFAULT_TIMEOUT, INIT_RTTVAR)
    /\ last_request_time = 0
    /\ now = 0
    /\ call = [op |-> "init", at |-> 0, ret |-> 0, decayed |-> FALSE, latency |-> 0,
               prev |-> "none", pre |-> <<0, 0, 0>>, stats |-> NoStats, streak |-> 0,
               episode |-> NoEpisode]
    /\ lock = 0
    /\ thread = [t \in Threads |-> IdleThread]
    /\ committed = <<srtt, rttvar, current_timeout>>

Init ==
    /\ Constructed
    /\ NoWeb
    /\ workload = "mixed"
    /\ budget = MaxSucc
    /\ failures = MaxFail
    /\ calls = 0

InitSteady ==
    /\ Constructed
    /\ NoWeb
    /\ workload = "steady"
    /\ budget = MaxSteady
    /\ failures = MaxSteadyFail
    /\ calls = 0

\* test_jacobson_update_success: answers of 0.1 s arriving back to back
InitFast ==
    /\ Constructed
    /\ NoWeb
    /\ workload = "fast"
    /\ budget = FAST_RUN
    /\ failures = 0
    /\ calls = 0

\* the fast answers, then an outage: nothing but failures
InitOutage ==
    /\ Constructed
    /\ NoWeb
    /\ workload = "outage"
    /\ budget = FAST_RUN
    /\ failures = MaxOutage
    /\ calls = 0

\* the boundary of the precondition observed_latency >= 0
InitZero ==
    /\ Constructed
    /\ NoWeb
    /\ workload = "zero"
    /\ budget = MaxZero
    /\ failures = MaxSteadyFail
    /\ calls = 0

InitConc ==
    /\ Constructed
    /\ NoWeb
    /\ workload = "mixed"
    /\ budget = MaxSucc
    /\ failures = MaxFail
    /\ calls = MaxCalls

\* --------------------------------------------------------------- actions
\* the clock advances; once the estimator counts as idle, more waiting changes nothing
Tick ==
    /\ now + TickStep <= MaxTime
    /\ ~is_idle(now, last_request_time)
    /\ workload \in {"fast", "outage"} => now + TickStep <= MEMORY_TTL
    /\ now' = now + TickStep
    /\ UNCHANGED <<srtt, rttvar, current_timeout, last_request_time, workload, seq, web, conc>>

\* get_timeout(), the whole call under the lock
get_timeout ==
    /\ IF is_idle(now, last_request_time)
       THEN /\ decay_rttvar(rttvar) <= MaxVar * Unit
            /\ rttvar' = decay_rttvar(rttvar)
            /\ current_timeout' = calc_timeout_unsafe(srtt, decay_rttvar(rttvar))
            /\ last_request_time' = now
       ELSE UNCHANGED <<rttvar, current_timeout, last_request_time>>
    /\ call' = Called("get_timeout", current_timeout', is_idle(now, last_request_time), 0, NoStats)
    /\ committed' = <<srtt, rttvar', current_timeout'>>
    /\ UNCHANGED <<srtt, now, failures, budget, workload, lock, thread, calls>>

\* update(observed_latency, success=False), the whole call under the lock
update_failure(L) ==
    /\ failures > 0
    /\ workload = "outage" => budget = 0
    /\ penalty_rttvar(rttvar) <= MaxVar * Unit
    /\ last_request_time' = now
    /\ current_timeout' = penalty_timeout(current_timeout)
    /\ rttvar' = penalty_rttvar(rttvar)
    /\ failures' = failures - 1
    /\ call' = Called("update_failure", 0, FALSE, L, NoStats)
    /\ committed' = <<srtt, rttvar', current_timeout'>>
    /\ UNCHANGED <<srtt, now, budget, workload, lock, thread, calls>>

\* update(observed_latency, success=True), the whole call under the lock
update_success(L) ==
    /\ budget > 0
    /\ workload \in {"fast", "web", "outage"} \/ Exact(L, srtt, rttvar)
    /\ last_request_time' = now
    /\ srtt' = jacobson(L, srtt, rttvar).srtt
    /\ rttvar' = jacobson(L, srtt, rttvar).rttvar
    /\ current_timeout' = jacobson(L, srtt, rttvar).current_timeout
    /\ budget' = budget - 1
    /\ call' = Called("update_success", 0, FALSE, L, NoStats)
    /\ committed' = <<srtt', rttvar', current_timeout'>>
    /\ UNCHANGED <<now, failures, workload, lock, thread, calls>>

\* a snapshot that counts as activity
get_stats_touching ==
    /\ call' = Called("get_stats", 0, FALSE, 0,
                      stats_of(srtt, rttvar, current_timeout, now - last_request_time))
    /\ last_request_time' = now
    /\ UNCHANGED <<srtt, rttvar, current_timeout, now, failures, budget, workload, conc>>

\* get_stats(), the whole call under the lock
get_stats ==
    /\ call' = Called("get_stats", 0, FALSE, 0,
                      stats_of(srtt, rttvar, current_timeout, now - last_request_time))
    /\ UNCHANGED <<srtt, rttvar, current_timeout, last_request_time, now, failures, budget, workload, conc>>

\* ------------------------------------------- the calls, statement by statement
\* Worker threads run the same three methods; each action below is one
\* statement of a method, so that the statements of different threads interleave.

At(t, p) == thread[t].pc = p

Goto(t, p) == thread' = [thread EXCEPT ![t].pc = p]

\* a worker thread calls get_timeout(), update(..) or get_stats() and reaches `with self._lock`
begin(t, op) ==
    /\ At(t, "idle")
    /\ calls > 0
    /\ calls' = calls - 1
    /\ thread' = [thread EXCEPT ![t] = [IdleThread EXCEPT !.pc = op]]
    /\ UNCHANGED <<srtt, rttvar, current_timeout, last_request_time, now, workload, seq, web,
                   lock, committed>>

\* get_timeout: with self._lock
gt_acquire(t) ==
    /\ At(t, "gt_wait")
    /\ lock_free(lock)
    /\ lock' = t
    /\ Goto(t, "gt_check")
    /\ UNCHANGED <<srtt, rttvar, current_timeout, last_request_time, now, workload, seq, web,
                   committed, calls>>

\* get_timeout: time_since_last = time.time() - self.last_request_time; if ... > MEMORY_TTL
gt_check(t) ==
    /\ At(t, "gt_check")
    /\ Goto(t, IF is_idle(now, last_request_time) THEN "gt_decay" ELSE "gt_return")
    /\ UNCHANGED <<srtt, rttvar, current_timeout, last_request_time, now, workload, seq, web,
                   lock, committed, calls>>

\* get_timeout: self.rttvar = max(self.rttvar * 2, 1.0)
gt_decay(t) ==
    /\ At(t, "gt_decay")
    /\ rttvar' = decay_rttvar(rttvar)
    /\ Goto(t, "gt_calc")
    /\ UNCHANGED <<srtt, current_timeout, last_request_time, now, workload, seq, web,
                   lock, committed, calls>>

\* get_timeout: self.current_timeout = self._calc_timeout_unsafe()
gt_calc(t) ==
    /\ At(t, "gt_calc")
    /\ current_timeout' = calc_timeout_unsafe(srtt, rttvar)
    /\ Goto(t, "gt_touch")
    /\ UNCHANGED <<srtt, rttvar, last_request_time, now, workload, seq, web, lock, committed, calls>>

\* get_timeout: self.last_request_time = time.time()
gt_touch(t) ==
    /\ At(t, "gt_touch")
    /\ last_request_time' = now
    /\ Goto(t, "gt_return")
    /\ UNCHANGED <<srtt, rttvar, current_timeout, now, workload, seq, web, lock, committed, calls>>

\* get_timeout: return self.current_timeout, leaving the with block
gt_return(t) ==
    /\ At(t, "gt_return")
    /\ lock' = 0
    /\ committed' = <<srtt, rttvar, current_timeout>>
    /\ thread' = [thread EXCEPT ![t].pc = "idle", ![t].ret = current_timeout,
                                ![t].done = "get_timeout"]
    /\ UNCHANGED <<srtt, rttvar, current_timeout, last_request_time, now, workload, seq, web, calls>>

\* update: with self._lock; the arguments of the call are drawn here
up_acquire(t, L, success) ==
    /\ At(t, "up_wait")
    /\ lock_free(lock)
    /\ success => Exact(L, srtt, rttvar)
    /\ success \/ failures > 0
    /\ lock' = t
    /\ thread' = [thread EXCEPT ![t].pc = IF success THEN "up_touch_ok" ELSE "up_touch_ko",
                                ![t].L = L, ![t].success = success]
    /\ failures' = IF success THEN failures ELSE failures - 1
    /\ UNCHANGED <<srtt, rttvar, current_timeout, last_request_time, now, workload, call, budget,
                   committed, calls, web>>

\* update: self.last_request_time = time.time(); if not success
up_touch(t) ==
    /\ At(t, "up_touch_ok") \/ At(t, "up_touch_ko")
    /\ last_request_time' = now
    /\ Goto(t, IF At(t, "up_touch_ok") THEN "up_diff" ELSE "up_backoff")
    /\ UNCHANGED <<srtt, rttvar, current_timeout, now, workload, seq, web, lock, committed, calls>>

\* update: self.current_timeout = min(self.TIMEOUT_MAX, self.current_timeout * 2)
up_backoff(t) ==
    /\ At(t, "up_backoff")
    /\ current_timeout' = penalty_timeout(current_timeout)
    /\ Goto(t, "up_penalty")
    /\ UNCHANGED <<srtt, rttvar, last_request_time, now, workload, seq, web, lock, committed, calls>>

\* update: self.rttvar += 0.5
up_penalty(t) ==
    /\ At(t, "up_penalty")
    /\ rttvar' = penalty_rttvar(rttvar)
    /\ Goto(t, "up_release")
    /\ UNCHANGED <<srtt, current_timeout, last_request_time, now, workload, seq, web,
                   lock, committed, calls>>

\* update: diff = observed_latency - self.srtt
up_diff(t) ==
    /\ At(t, "up_diff")
    /\ thread' = [thread EXCEPT ![t].pc = "up_srtt", ![t].diff = jacobson_diff(thread[t].L, srtt)]
    /\ UNCHANGED <<srtt, rttvar, current_timeout, last_request_time, now, workload, seq, web,
                   lock, committed, calls>>

\* update: self.srtt = self.srtt + (0.125 * diff)
up_srtt(t) ==
    /\ At(t, "up_srtt")
    /\ srtt' = jacobson_srtt(srtt, thread[t].diff)
    /\ Goto(t, "up_rttvar")
    /\ UNCHANGED <<rttvar, current_timeout, last_request_time, now, workload, seq, web,
                   lock, committed, calls>>

\* update: self.rttvar = self.rttvar + (0.25 * (abs(diff) - self.rttvar))
up_rttvar(t) ==
    /\ At(t, "up_rttvar")
    /\ rttvar' = jacobson_rttvar(rttvar, thread[t].diff)
    /\ Goto(t, "up_calc")
    /\ UNCHANGED <<srtt, current_timeout, last_request_time, now, workload, seq, web,
                   lock, committed, calls>>

\* update: self.current_timeout = self._calc_timeout_unsafe()
up_calc(t) ==
    /\ At(t, "up_calc")
    /\ current_timeout' = calc_timeout_unsafe(srtt, rttvar)
    /\ Goto(t, "up_release")
    /\ UNCHANGED <<srtt, rttvar, last_request_time, now, workload, seq, web, lock, committed, calls>>

\* an update that returns without leaving the with block
up_release_keeping_lock(t) ==
    /\ At(t, "up_release")
    /\ committed' = <<srtt, rttvar, current_timeout>>
    /\ thread' = [thread EXCEPT ![t].pc = "idle", ![t].done = "update"]
    /\ UNCHANGED <<srtt, rttvar, current_timeout, last_request_time, now, workload, seq, web, lock, calls>>

\* update: leaving the with block
up_release(t) ==
    /\ At(t, "up_release")
    /\ lock' = 0
    /\ committed' = <<srtt, rttvar, current_timeout>>
    /\ thread' = [thread EXCEPT ![t].pc = "idle", ![t].done = "update"]
    /\ UNCHANGED <<srtt, rttvar, current_timeout, last_request_time, now, workload, seq, web, calls>>

\* get_stats: with self._lock
gs_acquire(t) ==
    /\ At(t, "gs_wait")
    /\ lock_free(lock)
    /\ lock' = t
    /\ thread' = [thread EXCEPT ![t].pc = "gs_srtt", ![t].seen = committed]
    /\ UNCHANGED <<srtt, rttvar, current_timeout, last_request_time, now, workload, seq, web,
                   committed, calls>>

\* get_stats: "srtt": round(self.srtt, 3)
gs_srtt(t) ==
    /\ At(t, "gs_srtt")
    /\ thread' = [thread EXCEPT ![t].pc = "gs_rttvar", ![t].snap.srtt = Round3(srtt)]
    /\ UNCHANGED <<srtt, rttvar, current_timeout, last_request_time, now, workload, seq, web,
                   lock, committed, calls>>

\* get_stats: "rttvar": round(self.rttvar, 3)
gs_rttvar(t) ==
    /\ At(t, "gs_rttvar")
    /\ thread' = [thread EXCEPT ![t].pc = "gs_timeout", ![t].snap.rttvar = Round3(rttvar)]
    /\ UNCHANGED <<srtt, rttvar, current_timeout, last_request_time, now, workload, seq, web,
                   lock, committed, calls>>

\* get_stats: "timeout": round(self.current_timeout, 3)
gs_timeout(t) ==
    /\ At(t, "gs_timeout")
    /\ thread' = [thread EXCEPT ![t].pc = "gs_idle", ![t].snap.timeout = Round3(current_timeout)]
    /\ UNCHANGED <<srtt, rttvar, current_timeout, last_request_time, now, workload, seq, web,
                   lock, committed, calls>>

\* get_stats: "idle_sec": round(time.time() - self.last_request_time, 1)
gs_idle(t) ==
    /\ At(t, "gs_idle")
    /\ thread' = [thread EXCEPT ![t].pc = "gs_return",
                                ![t].snap.idle_sec = Round1(now - last_request_time)]
    /\ UNCHANGED <<srtt, rttvar, current_timeout, last_request_time, now, workload, seq, web,
                   lock, committed, calls>>

\* get_stats: return the dictionary, leaving the with block
gs_return(t) ==
    /\ At(t, "gs_return")
    /\ lock' = 0
    /\ thread' = [thread EXCEPT ![t].pc = "idle", ![t].result = thread[t].snap,
                                ![t].done = "get_stats"]
    /\ UNCHANGED <<srtt, rttvar, current_timeout, last_request_time, now, workload, seq, web,
                   committed, calls>>

\* ------------------------------------------------ the steps of the handler
\* the server started, serving one request at a time
InitWeb ==
    /\ Constructed
    /\ workload = "web"
    /\ budget = 2 * MaxRequests
    /\ failures = 2 * MaxRequests
    /\ calls = 0
    /\ cache = <<>>
    /\ worker = [w \in Workers |-> IdleWorker]
    /\ requests = MaxRequests
    /\ stored = [k \in Keys |-> NeverStored]
    /\ api_key \in BOOLEAN
    /\ pool = 1

\* the server started, its workers serving overlapping requests
InitWebConc ==
    /\ Constructed
    /\ workload = "web"
    /\ budget = 2 * MaxOverlap
    /\ failures = 2 * MaxOverlap
    /\ calls = 0
    /\ cache = <<>>
    /\ worker = [w \in Workers |-> IdleWorker]
    /\ requests = MaxOverlap
    /\ stored = [k \in Keys |-> NeverStored]
    /\ api_key = TRUE
    /\ pool = NWorkers

\* return jsonify(..), status: the response is on its way to the client
Return(w, st) == [worker[w] EXCEPT !.pc = "respond", !.status = st]

\* time passes between the steps of the handlers
web_tick ==
    /\ now + WebStep <= MaxWebTime
    /\ now' = now + WebStep
    /\ UNCHANGED <<srtt, rttvar, current_timeout, last_request_time, workload, seq, conc, web>>

\* _get_weather_impl, lines 301-315: validation, API key, cache lookup
h_request(w, q) ==
    /\ w <= pool
    /\ worker[w].pc = "idle"
    /\ requests > 0
    /\ requests' = requests - 1
    /\ IF ~valid_query(q)
       THEN /\ worker' = [worker EXCEPT ![w] = [IdleWorker EXCEPT !.pc = "respond", !.status = 400]]
            /\ cache' = cache
       ELSE IF ~api_key
       THEN /\ worker' = [worker EXCEPT ![w] = [IdleWorker EXCEPT !.pc = "respond", !.status = 500]]
            /\ cache' = cache
       ELSE LET k == key_of(q)
                i == cache_index(cache, k)
            IN  IF i = 0
                THEN /\ worker' = [worker EXCEPT ![w] = [IdleWorker EXCEPT !.pc = "get_timeout", !.key = k]]
                     /\ cache' = cache
                ELSE IF expired(now, cache[i].expires_at)
                THEN /\ worker' = [worker EXCEPT ![w] = [IdleWorker EXCEPT !.pc = "get_timeout", !.key = k,
                                                                          !.ops = {"pop"}]]
                     /\ cache' = cache_pop(cache, {k})
                ELSE /\ worker' = [worker EXCEPT ![w] =
                                      [IdleWorker EXCEPT !.pc = "respond", !.key = k, !.status = 200,
                                                         !.cached = TRUE]]
                     /\ cache' = cache
    /\ UNCHANGED <<srtt, rttvar, current_timeout, last_request_time, now, workload, seq, conc,
                   stored, api_key, pool>>

\* line 331: dynamic_timeout = brain.get_timeout()
h_get_timeout(w) ==
    /\ worker[w].pc = "get_timeout"
    /\ get_timeout
    /\ worker' = [worker EXCEPT ![w].pc = "upstream", ![w].timeout = call'.ret,
                                ![w].gts = worker[w].gts + 1]
    /\ UNCHANGED <<cache, requests, stored, api_key, pool>>

\* lines 338-345: session.get(..) returns a response or raises
h_upstream(w, o) ==
    /\ worker[w].pc = "upstream"
    /\ worker' = [worker EXCEPT ![w].pc = "report", ![w].outcome = o,
                                ![w].upstream = worker[w].upstream + 1]
    /\ UNCHANGED <<srtt, rttvar, current_timeout, last_request_time, now, workload, seq, conc,
                   cache, requests, stored, api_key, pool>>

\* lines 351-369: a status the handler answers itself: brain.update(latency, success=True), return
h_report_status(w, L) ==
    /\ worker[w].pc = "report"
    /\ worker[w].outcome \in Handled
    /\ update_success(L)
    /\ worker' = [worker EXCEPT ![w] = [Return(w, status_for(worker[w].outcome))
                                           EXCEPT !.ups = Append(worker[w].ups, TRUE)]]
    /\ UNCHANGED <<cache, requests, stored, api_key, pool>>

\* lines 371-374: raise_for_status() passes: brain.update(latency, success=True), go on to the body
h_report_ok(w, L) ==
    /\ worker[w].pc = "report"
    /\ worker[w].outcome = "200"
    /\ update_success(L)
    /\ worker' = [worker EXCEPT ![w].pc = "parse", ![w].ups = Append(worker[w].ups, TRUE)]
    /\ UNCHANGED <<cache, requests, stored, api_key, pool>>

\* lines 389-404: requests.Timeout, or another RequestException (the HTTPError that
\* raise_for_status() raises for a 4xx status not answered above included):
\* brain.update(latency, success=False), return 504 or 502
h_report_exception(w, L) ==
    /\ worker[w].pc = "report"
    /\ worker[w].outcome \in {"timeout", "error", "403"}
    /\ update_failure(L)
    /\ worker' = [worker EXCEPT ![w] = [Return(w, status_for(worker[w].outcome))
                                           EXCEPT !.ups = Append(worker[w].ups, FALSE)]]
    /\ UNCHANGED <<cache, requests, stored, api_key, pool>>

\* lines 376-386: the body parses and maps to a payload with a city and a temperature
h_parse_valid(w) ==
    /\ worker[w].pc = "parse"
    /\ worker' = [worker EXCEPT ![w].pc = "set_check", ![w].body = "valid"]
    /\ UNCHANGED <<srtt, rttvar, current_timeout, last_request_time, now, workload, seq, conc,
                   cache, requests, stored, api_key, pool>>

\* a payload without city or temperature that is cached all the same
h_parse_incomplete_cached(w) ==
    /\ worker[w].pc = "parse"
    /\ worker' = [worker EXCEPT ![w].pc = "set_check", ![w].body = "incomplete"]
    /\ UNCHANGED <<srtt, rttvar, current_timeout, last_request_time, now, workload, seq, conc,
                   cache, requests, stored, api_key, pool>>

\* lines 379-384: the payload lacks the city or the temperature: return 502
h_parse_incomplete(w) ==
    /\ worker[w].pc = "parse"
    /\ worker' = [worker EXCEPT ![w] = [Return(w, 502) EXCEPT !.body = "incomplete"]]
    /\ UNCHANGED <<srtt, rttvar, current_timeout, last_request_time, now, workload, seq, conc,
                   cache, requests, stored, api_key, pool>>

\* lines 376-377 and 406-415: resp.json() or _map_openweather raise ValueError or TypeError:
\* brain.update(latency, success=True) a second time, return 502
h_parse_invalid(w, L) ==
    /\ worker[w].pc = "parse"
    /\ update_success(L)
    /\ worker' = [worker EXCEPT ![w] = [Return(w, 502) EXCEPT !.ups = Append(worker[w].ups, TRUE),
                                                              !.body = "invalid"]]
    /\ UNCHANGED <<cache, requests, stored, api_key, pool>>

\* lines 376 and 395-404: resp.json() raises requests.exceptions.JSONDecodeError, which
\* installed versions of requests from 2.27 on derive from RequestException:
\* brain.update(latency, success=False), return 502
h_parse_undecodable(w, L) ==
    /\ worker[w].pc = "parse"
    /\ update_failure(L)
    /\ worker' = [worker EXCEPT ![w] = [Return(w, 502) EXCEPT !.ups = Append(worker[w].ups, FALSE),
                                                              !.body = "undecodable"]]
    /\ UNCHANGED <<cache, requests, stored, api_key, pool>>

\* _cache_set, line 145: if len(_cache) >= settings.cache_max_items; line 147: list(_cache.keys())
h_set_check(w) ==
    /\ worker[w].pc = "set_check"
    /\ worker' = IF Len(cache) >= cache_max_items
                 THEN [worker EXCEPT ![w].pc = "set_evict",
                                     ![w].snapshot = [i \in 1 .. Len(cache) |-> cache[i].key]]
                 ELSE [worker EXCEPT ![w].pc = "set_insert"]
    /\ UNCHANGED <<srtt, rttvar, current_timeout, last_request_time, now, workload, seq, conc,
                   cache, requests, stored, api_key, pool>>

\* _cache_set, lines 147-150: pop the oldest keys of the snapshot
h_set_evict(w) ==
    /\ worker[w].pc = "set_evict"
    /\ LET n == evict_count(Len(worker[w].snapshot))
           ks == { worker[w].snapshot[i] : i \in 1 .. n }
       IN  /\ cache' = cache_pop(cache, ks)
           /\ stored' = [k \in Keys |->
                            IF k \in ks /\ cache_index(cache, k) # 0
                            THEN [stored[k] EXCEPT !.evicted = TRUE]
                            ELSE stored[k]]
    /\ worker' = [worker EXCEPT ![w].pc = "set_insert", ![w].snapshot = <<>>,
                                ![w].ops = worker[w].ops \cup {"evict"}]
    /\ UNCHANGED <<srtt, rttvar, current_timeout, last_request_time, now, workload, seq, conc,
                   requests, api_key, pool>>

\* _cache_set, line 151, and the return of line 387
h_set_insert(w) ==
    /\ worker[w].pc = "set_insert"
    /\ cache' = cache_put(cache, worker[w].key, now + cache_ttl_s)
    /\ stored' = [stored EXCEPT ![worker[w].key] = [at |-> now, evicted |-> FALSE]]
    /\ worker' = [worker EXCEPT ![w] = [Return(w, 200) EXCEPT !.ops = worker[w].ops \cup {"insert"}]]
    /\ UNCHANGED <<srtt, rttvar, current_timeout, last_request_time, now, workload, seq, conc,
                   requests, api_key, pool>>

\* the response has left; the worker is free for the next request
h_respond(w) ==
    /\ worker[w].pc = "respond"
    /\ worker' = [worker EXCEPT ![w] = IdleWorker]
    /\ UNCHANGED <<srtt, rttvar, current_timeout, last_request_time, now, workload, seq, conc,
                   cache, requests, stored, api_key, pool>>

NextWeb ==
    \/ web_tick
    \/ \E w \in Workers : \E q \in Queries : h_request(w, q)
    \/ \E w \in Workers : h_get_timeout(w)
    \/ \E w \in Workers : \E o \in Answers(pool) : h_upstream(w, o)
    \/ \E w \in Workers : \E L \in Latencies(workload, srtt) : h_report_status(w, L)
    \/ \E w \in Workers : \E L \in Latencies(workload, srtt) : h_report_ok(w, L)
    \/ \E w \in Workers : \E L \in Latencies(workload, srtt) : h_report_exception(w, L)
    \/ \E w \in Workers : h_parse_valid(w)
    \/ \E w \in Workers : h_parse_incomplete(w)
    \/ \E w \in Workers : \E L \in Latencies(workload, srtt) : h_parse_invalid(w, L)
    \/ \E w \in Workers : \E L \in Latencies(workload, srtt) : h_parse_undecodable(w, L)
    \/ \E w \in Workers : h_set_check(w)
    \/ \E w \in Workers : h_set_evict(w)
    \/ \E w \in Workers : h_set_insert(w)
    \/ \E w \in Workers : h_respond(w)


NextConc ==
    \/ Tick
    \/ \E t \in Threads : begin(t, "gt_wait")
    \/ \E t \in Threads : begin(t, "up_wait")
    \/ \E t \in Threads : begin(t, "gs_wait")
    \/ \E t \in Threads : gt_acquire(t)
    \/ \E t \in Threads : gt_check(t)
    \/ \E t \in Threads : gt_decay(t)
    \/ \E t \in Threads : gt_calc(t)
    \/ \E t \in Threads : gt_touch(t)
    \/ \E t \in Threads : gt_return(t)
    \/ \E t \in Threads : \E L \in Latencies(workload, srtt) : up_acquire(t, L, TRUE)
    \/ \E t \in Threads : \E L \in Latencies(workload, srtt) : up_acquire(t, L, FALSE)
    \/ \E t \in Threads : up_touch(t)
    \/ \E t \in Threads : up_backoff(t)
    \/ \E t \in Threads : up_penalty(t)
    \/ \E t \in Threads : up_diff(t)
    \/ \E t \in Threads : up_srtt(t)
    \/ \E t \in Threads : up_rttvar(t)
    \/ \E t \in Threads : up_calc(t)
    \/ \E t \in Threads : up_release(t)
    \/ \E t \in Threads : gs_acquire(t)
    \/ \E t \in Threads : gs_srtt(t)
    \/ \E t \in Threads : gs_rttvar(t)
    \/ \E t \in Threads : gs_timeout(t)
    \/ \E t \in Threads : gs_idle(t)
    \/ \E t \in Threads : gs_return(t)

Next ==
    \/ Tick
    \/ get_timeout /\ UNCHANGED web
    \/ \E L \in Latencies(workload, srtt) : update_success(L) /\ UNCHANGED web
    \/ \E L \in Latencies(workload, srtt) : update_failure(L) /\ UNCHANGED web
    \/ get_stats /\ UNCHANGED web

Spec == Init /\ [][Next]_vars

SpecSteady == InitSteady /\ [][Next]_vars

\* the sequential calls under every workload
SpecWorkloads == (Init \/ InitSteady \/ InitFast \/ InitZero \/ InitOutage) /\ [][Next]_vars

SpecConc == InitConc /\ [][NextConc]_vars

\* with self._lock: of a thread that waits for the lock
Acquire(t) ==
    \/ gt_acquire(t)
    \/ \E L \in Latencies(workload, srtt) : up_acquire(t, L, TRUE)
    \/ \E L \in Latencies(workload, srtt) : up_acquire(t, L, FALSE)
    \/ gs_acquire(t)

\* the statements of a thread that holds the lock
Inside(t) ==
    \/ gt_check(t) \/ gt_decay(t) \/ gt_calc(t) \/ gt_touch(t) \/ gt_return(t)
    \/ up_touch(t) \/ up_backoff(t) \/ up_penalty(t) \/ up_diff(t) \/ up_srtt(t)
    \/ up_rttvar(t) \/ up_calc(t) \/ up_release(t)
    \/ gs_srtt(t) \/ gs_rttvar(t) \/ gs_timeout(t) \/ gs_idle(t) \/ gs_return(t)

\* fair scheduling: a thread that can run its next statement runs it in the end, and a
\* thread that finds the lock free again and again gets it in the end
Fairness == \A t \in Threads : WF_vars(Inside(t)) /\ SF_vars(Acquire(t))

\* the worker threads start on a fresh estimator; every answer takes no time at all
InitConcFair ==
    /\ Constructed
    /\ NoWeb
    /\ workload = "zero"
    /\ budget = MaxSucc
    /\ failures = MaxFail
    /\ calls = MaxCalls

\* the worker threads under fair scheduling
SpecConcFair == InitConcFair /\ [][NextConc]_vars /\ Fairness

\* the workers of /get_weather serving overlapping requests
SpecWebConc == InitWebConc /\ [][NextWeb]_vars

\* the workers of /get_weather
SpecWeb == InitWeb /\ [][NextWeb]_vars

\* ================================================================ claims

\* C1 (clamp law): in every reachable state current_timeout lies in
\* [1.0 s, 10.0 s], and so does every value get_timeout() has returned.
C1_ClampLaw ==
    /\ 1 * Unit <= current_timeout
    /\ current_timeout <= 10 * Unit
    /\ call.op = "get_timeout" => (1 * Unit <= call.ret /\ call.ret <= 10 * Unit)

\* a get_timeout() right after a failed update that hit the ceiling
C1_Witness ==
    /\ call.op = "get_timeout"
    /\ call.prev = "update_failure"
    /\ call.ret = 10 * Unit
    /\ 2 * call.pre[3] >= 10 * Unit

\* C2 (penalty monotonicity): a failed update sets current_timeout to
\* min(10 s, 2 * current_timeout), which is >= the old value and equal to it
\* only at the ceiling; a get_timeout() right after it, within the idle
\* threshold, returns exactly that value.
C2_PenaltyMonotone ==
    [][ /\ \A L \in Latencies(workload, srtt) :
              update_failure(L) =>
                  /\ current_timeout' = (IF 2 * current_timeout <= 10 * Unit
                                         THEN 2 * current_timeout ELSE 10 * Unit)
                  /\ current_timeout' >= current_timeout
                  /\ (current_timeout' = current_timeout => current_timeout = 10 * Unit)
        /\ (get_timeout /\ call.op = "update_failure" /\ now - call.at <= 600) =>
              /\ call'.ret = current_timeout
              /\ current_timeout' = current_timeout
       ]_vars

\* a get_timeout() right after a failed update that doubled without reaching the ceiling
C2_Witness ==
    /\ call.op = "get_timeout"
    /\ call.prev = "update_failure"
    /\ ~call.decayed
    /\ call.ret = current_timeout
    /\ call.ret < 10 * Unit

\* C3 (Karn's rule): a failed update leaves srtt unchanged, adds exactly 0.5 s to
\* rttvar, and its resulting srtt, rttvar and current_timeout are a function of
\* the state before it alone, whatever latency was reported.
C3_KarnRule ==
    [][ \A L \in Latencies(workload, srtt) :
            update_failure(L) =>
                /\ srtt' = srtt
                /\ 2 * (rttvar' - rttvar) = Unit
                /\ current_timeout' = (IF 2 * current_timeout <= 10 * Unit
                                       THEN 2 * current_timeout ELSE 10 * Unit)
       ]_vars

\* a failed update that reported a latency far from the mean
C3_Witness ==
    /\ call.op = "update_failure"
    /\ call.latency # call.pre[1]
    /\ srtt = call.pre[1]
    /\ rttvar > call.pre[2]

\* C4 (successful update): update(L, true) on (s, v) gives srtt' = s + (L - s)/8,
\* rttvar' = v + (|L - s| - v)/4 with the deviation taken against the old mean s,
\* and current_timeout' = clamp(srtt' + 4 rttvar'); the old current_timeout plays no part.
C4_SuccessfulUpdate ==
    [][ \A L \in Latencies(workload, srtt) :
            update_success(L) =>
                /\ 8 * (srtt' - srtt) = L - srtt
                /\ 4 * (rttvar' - rttvar) = (IF L >= srtt THEN L - srtt ELSE srtt - L) - rttvar
                /\ current_timeout' =
                      (IF srtt' + 4 * rttvar' < 1 * Unit THEN 1 * Unit
                       ELSE IF srtt' + 4 * rttvar' > 10 * Unit THEN 10 * Unit
                       ELSE srtt' + 4 * rttvar')
       ]_vars

\* a successful update right after a failed one: the doubled timeout is dropped
C4_Witness ==
    /\ call.op = "update_success"
    /\ call.prev = "update_failure"
    /\ call.latency # call.pre[1]
    /\ current_timeout < call.pre[3]

\* C5 (initial state): a fresh estimator has srtt = 3.0, rttvar = 0.5 and
\* current_timeout = 5.0, and a first get_timeout() made within 600 s of
\* construction returns 5.0.
C5_InitialState ==
    /\ call.op = "init" =>
          (srtt = 3 * Unit /\ 2 * rttvar = Unit /\ current_timeout = 5 * Unit)
    /\ (call.op = "get_timeout" /\ call.prev = "init" /\ call.at <= 600) =>
          call.ret = 5 * Unit

\* the first call is a get_timeout() made some time after construction, within the threshold
C5_Witness ==
    /\ call.op = "get_timeout"
    /\ call.prev = "init"
    /\ call.at > 0
    /\ call.at <= 600
    /\ call.ret = 5 * Unit

\* C6 as stated (end-to-end scenario): after update(0.1, true) on the fresh
\* estimator, srtt is about 2.73 and rttvar about 0.425.
C6_Original ==
    (/\ call.op = "update_success"
     /\ call.latency = Unit \div 10
     /\ call.pre = <<3 * Unit, Unit \div 2, 5 * Unit>>) =>
        /\ Round3(srtt) >= 2725 /\ Round3(srtt) <= 2735
        /\ Round3(rttvar) >= 420 /\ Round3(rttvar) <= 430

\* C6 as amended: on the fresh estimator get_timeout() returns 5.0; update(0.1, true)
\* then leaves srtt = 2.6375, rttvar = 1.1 and current_timeout = 7.0375; a failed
\* update then sets current_timeout = min(10.0, 2 * previous).
C6_Scenario ==
    /\ [](/\ (/\ call.op = "get_timeout"
              /\ ~call.decayed
              /\ call.pre = <<3 * Unit, Unit \div 2, 5 * Unit>>) =>
                 call.ret = 5 * Unit
          /\ (/\ call.op = "update_success"
              /\ call.latency = Unit \div 10
              /\ call.pre = <<3 * Unit, Unit \div 2, 5 * Unit>>) =>
                 /\ srtt = 211 * (Unit \div 80)
                 /\ rttvar = 11 * (Unit \div 10)
                 /\ current_timeout = 563 * (Unit \div 80))
    /\ [][ \A L \in Latencies(workload, srtt) :
              update_failure(L) =>
                  current_timeout' = (IF 2 * current_timeout <= 10 * Unit
                                      THEN 2 * current_timeout ELSE 10 * Unit)
         ]_vars

\* the scenario ran to its end: update(0.1, true) on the fresh estimator, then a failed update
C6_Witness ==
    /\ call.op = "update_failure"
    /\ call.prev = "update_success"
    /\ call.pre = <<211 * (Unit \div 80), 11 * (Unit \div 10), 563 * (Unit \div 80)>>
    /\ current_timeout = 10 * Unit

\* C7 (soft decay): a get_timeout() made more than 600 s after last_request_time
\* sets rttvar to max(2 * rttvar, 1.0), strictly more than before, recomputes
\* current_timeout by the clamp formula, sets last_request_time to now and keeps
\* srtt; a get_timeout() made within 600 s changes none of srtt, rttvar, current_timeout.
C7_SoftDecay ==
    [][ get_timeout =>
          IF now - last_request_time > 600
          THEN /\ rttvar' = (IF 2 * rttvar >= 1 * Unit THEN 2 * rttvar ELSE 1 * Unit)
               /\ rttvar' > rttvar
               /\ current_timeout' =
                     (IF srtt + 4 * rttvar' < 1 * Unit THEN 1 * Unit
                      ELSE IF srtt + 4 * rttvar' > 10 * Unit THEN 10 * Unit
                      ELSE srtt + 4 * rttvar')
               /\ last_request_time' = now
               /\ srtt' = srtt
          ELSE /\ srtt' = srtt
               /\ rttvar' = rttvar
               /\ current_timeout' = current_timeout
       ]_vars

\* a decaying get_timeout() on an estimator that has learned: the mean, no longer
\* the default, is kept, the uncertainty is doubled and the timeout recomputed
C7_Witness ==
    /\ call.op = "get_timeout"
    /\ call.decayed
    /\ srtt # 3 * Unit
    /\ srtt = call.pre[1]
    /\ rttvar = 2 * call.pre[2]
    /\ current_timeout # call.pre[3]
    /\ last_request_time = call.at

\* C8 (idle decay never lowers the timeout): a get_timeout() that applies the
\* idle decay returns a current_timeout >= the one held just before the call.
C8_DecayNeverLowers ==
    [][ (get_timeout /\ now - last_request_time > 600) =>
            /\ current_timeout' >= current_timeout
            /\ call'.ret >= current_timeout
       ]_vars

\* C9 (idle decay idempotence): of two consecutive get_timeout() calls less than
\* 600 s apart with no update between them, the second returns the value the
\* first returned and applies no decay.
C9_Idempotence ==
    [][ (get_timeout /\ call.op = "get_timeout" /\ now - call.at < 600) =>
            /\ call'.ret = call.ret
            /\ ~call'.decayed
            /\ rttvar' = rttvar
       ]_vars

\* C10 (no torn reads): every dictionary get_stats() returns holds the (rounded)
\* srtt, rttvar and current_timeout of one state, the one the last complete
\* operation had left when get_stats took the lock; it never mixes fields from
\* before and after another thread's update or decay.
C10_NoTornReads ==
    \A t \in Threads :
        thread[t].done = "get_stats" =>
            /\ thread[t].result.srtt = Round3(thread[t].seen[1])
            /\ thread[t].result.rttvar = Round3(thread[t].seen[2])
            /\ thread[t].result.timeout = Round3(thread[t].seen[3])

\* one thread has completed an update and another a get_stats() whose snapshot
\* shows the state that update left
C10_Witness ==
    \E t \in Threads : \E u \in Threads :
        /\ t # u
        /\ thread[u].done = "update"
        /\ thread[t].done = "get_stats"
        /\ thread[t].seen # <<3 * Unit, Unit \div 2, 5 * Unit>>
        /\ thread[t].result.srtt = Round3(srtt)


\* C11 (linearizability): whatever the interleaving of the threads' statements,
\* every update leaves, when it releases the lock, exactly the state that the
\* same call run atomically yields from the state the last completed call left,
\* and every get_timeout() leaves that state or its decayed form and returns
\* its current_timeout; no update is lost: once k failed updates and no other
\* call have completed, rtt_variance is 0.5 + 0.5 * k and current_timeout is
\* min(10.0, 2^k * 5.0).
C11_Linearizable ==
    [][ /\ \A t \in Threads : up_release(t) =>
            committed' =
                IF thread[t].success
                THEN LET d == thread[t].L - committed[1]
                         s2 == committed[1] + (d \div 8)
                         v2 == committed[2] + ((Abs(d) - committed[2]) \div 4)
                     IN  <<s2, v2, Max(1 * Unit, Min(10 * Unit, s2 + 4 * v2))>>
                ELSE <<committed[1], committed[2] + (Unit \div 2), Min(10 * Unit, 2 * committed[3])>>
        /\ \A t \in Threads : gt_return(t) =>
            /\ thread'[t].ret = committed'[3]
            /\ \/ committed' = committed
               \/ LET v2 == Max(2 * committed[2], 1 * Unit)
                  IN  committed' = <<committed[1], v2,
                                     Max(1 * Unit, Min(10 * Unit, committed[1] + 4 * v2))>>
        /\ ( /\ \A t \in Threads : thread'[t].pc = "idle"
             /\ MaxCalls - calls' = MaxFail - failures' ) =>
                /\ rttvar' = (Unit \div 2) + (MaxFail - failures') * (Unit \div 2)
                /\ current_timeout' = Min(10 * Unit, (2 ^ (MaxFail - failures')) * 5 * Unit)
      ]_vars

\* every worker has completed a failed update and nothing else was called
C11_Witness ==
    /\ \A t \in Threads : thread[t].pc = "idle" /\ thread[t].done = "update" /\ ~thread[t].success
    /\ calls = 0
    /\ MaxFail - failures = MaxCalls
    /\ rttvar > 1 * Unit
    /\ current_timeout = 10 * Unit

\* C12: a successful update with a latency L in [0, 10 s] leaves
\* current_timeout >= max(L, 1.0 s), and brings the state nearer to (smoothed_rtt = L,
\* rtt_variance = 0): the distance rtt_variance + 4 * |L - smoothed_rtt| shrinks by
\* one sixteenth at least (up to the 4 units of rounding of the fast workload), so
\* that repeating the update with a constant L makes rtt_variance tend to 0 and
\* current_timeout tend to max(L, 1.0 s) from above; on a fresh estimator
\* 50 consecutive update(0.1, true) bring get_timeout() below 5.0 s, down to 1.0 s.
C12_Convergence ==
    [][ /\ \A L \in Latencies(workload, srtt) : (update_success(L) /\ L <= 10 * Unit) =>
            /\ current_timeout' >= L
            /\ current_timeout' >= 1 * Unit
            /\ rttvar' + 4 * Abs(L - srtt')
                 <= (rttvar + 4 * Abs(L - srtt))
                    - ((rttvar + 4 * Abs(L - srtt) + 15) \div 16)
                    + (IF workload = "fast" THEN 4 ELSE 0)
        /\ (get_timeout /\ workload = "fast" /\ budget = 0) =>
            /\ call'.ret < 5 * Unit
            /\ call'.ret = 1 * Unit
            /\ 100 * rttvar' < Unit
      ]_vars

\* get_timeout() after the 50 answers of 0.1 s
C12_Witness ==
    /\ workload = "fast"
    /\ budget = 0
    /\ call.op = "get_timeout"
    /\ call.prev = "update_success"
    /\ call.ret = 1 * Unit

\* C13: in the /get_weather handler every report made to the estimator after an
\* HTTP response was received, whatever its status code, has success=true;
\* success=false is reported only when no response was obtained.
C13_Classification ==
    \A w \in Workers : \A i \in 1 .. Len(worker[w].ups) :
        worker[w].ups[i] = (worker[w].outcome \notin {"timeout", "error"})

\* C14: a handler that has called brain.get_timeout() calls brain.update exactly
\* once, after the upstream call has settled and before it returns.
C14_OneReport ==
    \A w \in Workers :
        /\ Len(worker[w].ups) <= 1
        /\ worker[w].pc \in {"get_timeout", "upstream", "report"} => worker[w].ups = <<>>
        /\ (worker[w].pc = "respond" /\ worker[w].gts > 0) =>
              (worker[w].gts = 1 /\ Len(worker[w].ups) = 1)

\* C15: smoothed_rtt > 0 in every state reachable by get_timeout and update
\* calls whose observed latencies are all >= 0 (zero included).
C15_SrttPositive == srtt > 0

\* an answer that took no time at all has pulled the mean down
C15_Witness ==
    /\ call.op = "update_success"
    /\ call.latency = 0
    /\ srtt < call.pre[1]
    /\ call.pre[1] < 3 * Unit

\* C16: rtt_variance >= 0 in every state reachable by get_timeout (with or
\* without idle decay), successful updates and failed updates.
C16_RttvarNonNegative == rttvar >= 0

\* a sample far below the mean (negative diff) after which the deviation went down
C16_Witness ==
    /\ call.op = "update_success"
    /\ call.latency < call.pre[1]
    /\ rttvar < call.pre[2]

\* C17: after every get_timeout call and after every update call,
\* last_activity_at equals the time of that call.
C17_LastActivity ==
    call.op \in {"get_timeout", "update_success", "update_failure"} =>
        last_request_time = call.at

\* C18: get_stats() changes none of smoothed_rtt, rtt_variance,
\* current_timeout, last_activity_at, whatever the idle time; the get_timeout()
\* that follows it sees the state the snapshot saw.
C18_SnapshotReadOnly ==
    [][ /\ get_stats =>
            /\ srtt' = srtt
            /\ rttvar' = rttvar
            /\ current_timeout' = current_timeout
            /\ last_request_time' = last_request_time
        /\ (get_timeout /\ call.op = "get_stats") =>
            /\ call'.pre = call.pre
            /\ call'.decayed = (now - last_request_time > 600)
      ]_vars

\* a snapshot taken after the idle threshold had passed, then a get_timeout()
\* that applied the decay all the same
C18_Witness ==
    /\ call.op = "get_timeout"
    /\ call.prev = "get_stats"
    /\ call.decayed

\* C19 as stated: once a request has stored a payload for a key, every later
\* request for that key within cache_ttl_s is answered from the cache.
C19_Original ==
    [][ \A w \in Workers : \A q \in Queries :
          ( /\ h_request(w, q)
            /\ valid_query(q)
            /\ api_key
            /\ stored[key_of(q)].at >= 0
            /\ now <= stored[key_of(q)].at + 120 ) =>
                (worker'[w].cached /\ worker'[w].status = 200)
      ]_vars

\* C19: once a request has stored a payload for a key, every later request for
\* that key made within 120 s, as long as _cache_set has not evicted the entry to
\* make room, is answered 200 from the cache, with no upstream call and no call
\* of brain.get_timeout or brain.update: the estimator is left as it was.
C19_CacheHit ==
    [][ \A w \in Workers : \A q \in Queries :
          ( /\ h_request(w, q)
            /\ valid_query(q)
            /\ api_key
            /\ stored[key_of(q)].at >= 0
            /\ ~stored[key_of(q)].evicted
            /\ now <= stored[key_of(q)].at + 120 ) =>
                /\ worker'[w].pc = "respond"
                /\ worker'[w].cached
                /\ worker'[w].status = 200
                /\ worker'[w].upstream = 0
                /\ worker'[w].gts = 0
                /\ worker'[w].ups = <<>>
                /\ call' = call
                /\ <<srtt', rttvar', current_timeout', last_request_time'>>
                     = <<srtt, rttvar, current_timeout, last_request_time>>
                /\ cache' = cache
      ]_vars

\* a request answered from the cache exactly 120 s after the payload was stored,
\* the cache being full
C19_Witness ==
    \E w \in Workers :
        /\ worker[w].pc = "respond"
        /\ worker[w].cached
        /\ worker[w].status = 200
        /\ stored[worker[w].key].at >= 0
        /\ now = stored[worker[w].key].at + 120
        /\ Len(cache) = cache_max_items

\* C20: after a get_timeout() that applied idle decay at time t, every further
\* get_timeout() at a time <= t + 600 with no update in between applies no
\* decay, leaves rtt_variance alone and returns what the decaying call returned.
C20_NoDoubleDecay ==
    [][ (get_timeout /\ call.episode.at >= 0 /\ now <= call.episode.at + 600) =>
            /\ ~call'.decayed
            /\ rttvar' = rttvar
            /\ call'.ret = call.episode.ret
      ]_vars

\* a get_timeout() exactly 600 s after the decaying one, a snapshot in between
C20_Witness ==
    /\ call.op = "get_timeout"
    /\ ~call.decayed
    /\ call.episode.at >= 0
    /\ call.at = call.episode.at + 600

\* C21: a run of k consecutive failed updates (no successful update, no idle
\* decay in between) leaves current_timeout >= min(10.0, 2^k * 1.0), hence at
\* 10.0 s after 4 failures at most (1 -> 2 -> 4 -> 8 -> 10), and every further
\* consecutive failure leaves it at 10.0 s.
C21_ReachesCeiling ==
    [][ \A L \in Latencies(workload, srtt) : update_failure(L) =>
            /\ call'.streak = call.streak + 1
            /\ current_timeout' >= Min(10 * Unit, (2 ^ Min(call'.streak, 4)) * Unit)
            /\ call'.streak >= 4 => current_timeout' = 10 * Unit
            /\ current_timeout = 10 * Unit => current_timeout' = 10 * Unit
      ]_vars

\* the fourth failure in a row of a run that began at the floor of 1.0 s
C21_Witness ==
    /\ call.op = "update_failure"
    /\ call.streak = 4
    /\ call.pre[3] = 8 * Unit
    /\ current_timeout = 10 * Unit

\* C22: the lock is only ever taken when it is free (no thread takes it while
\* it holds it; the clamp computation runs inside the holder's call and takes
\* nothing), a thread that has returned from its call does not hold the lock,
\* and under fair scheduling every call that was begun returns: whenever some
\* thread is inside a call or waits for the lock, a state follows in which
\* every thread has returned (the threads issue finitely many calls, so a thread
\* that never returned would keep that state from ever occurring).
C22_DeadlockFree ==
    /\ [](\A t \in Threads : thread[t].pc \in {"idle", "gt_wait", "up_wait", "gs_wait"} => lock # t)
    /\ [][lock' # lock => (lock = 0 \/ lock' = 0)]_vars
    /\ (\E t \in Threads : thread[t].pc # "idle") ~> (\A t \in Threads : thread[t].pc = "idle")

\* every call has returned, after a thread had to wait for another's update
C22_Witness ==
    /\ calls = 0
    /\ lock = 0
    /\ \A t \in Threads : thread[t].pc = "idle" /\ thread[t].done # "none"
    /\ \E t \in Threads : thread[t].done = "update"
    /\ \E t \in Threads : thread[t].done = "get_timeout"

\* C23: every cache entry expires cache_ttl_s after its insertion; a lookup
\* answers from the cache only with an entry whose expiry time is not earlier
\* than the current time; a lookup that finds an expired entry removes it and
\* reports a miss, so that the request goes on to the upstream service.
C23_CacheExpiry ==
    /\ [](\A i \in 1 .. Len(cache) : cache[i].expires_at = stored[cache[i].key].at + cache_ttl_s)
    /\ [][ \A w \in Workers : \A q \in Queries :
              (h_request(w, q) /\ valid_query(q) /\ api_key) =>
                  LET k == key_of(q)
                      i == cache_index(cache, k)
                  IN  /\ worker'[w].cached => (i # 0 /\ cache[i].expires_at >= now)
                      /\ (i # 0 /\ cache[i].expires_at < now) =>
                             /\ cache_index(cache', k) = 0
                             /\ Len(cache') = Len(cache) - 1
                             /\ ~worker'[w].cached
                             /\ worker'[w].pc = "get_timeout"
          ]_vars

\* a request whose lookup found its key expired, removed it and goes upstream
C23_Witness ==
    \E w \in Workers :
        /\ worker[w].pc = "get_timeout"
        /\ worker[w].ops = {"pop"}
        /\ stored[worker[w].key].at >= 0
        /\ now > stored[worker[w].key].at + cache_ttl_s
        /\ cache_index(cache, worker[w].key) = 0

\* C24: whatever the interleaving of the check, evict and insert steps of the
\* _cache_set calls of handlers running on several worker threads, the cache
\* never holds more than cache_max_items entries.
C24_SizeBound == Len(cache) <= cache_max_items

\* the statuses with which /get_weather reports an error to the client
ErrorStatuses == {400, 404, 500, 502, 503, 504}

\* C25 as stated: the cache is written only for a good answer (_cache_set runs
\* only after a 2xx upstream status, a parsed body and a payload with city and
\* temperature, and that request is answered 200), and a request
\* answered with an error status has neither written to nor modified the cache.
C25_Original ==
    /\ \A w \in Workers :
           (\/ worker[w].pc \in {"set_check", "set_evict", "set_insert"}
            \/ worker[w].ops \cap {"evict", "insert"} # {}) =>
               /\ worker[w].outcome = "200"
               /\ worker[w].body = "valid"
               /\ worker[w].pc = "respond" => worker[w].status = 200
    /\ \A w \in Workers :
           (worker[w].pc = "respond" /\ worker[w].status \in ErrorStatuses) => worker[w].ops = {}

\* C25, amended: the cache is written only for a good answer; a request answered
\* with an error status has stored and evicted nothing, and the only change it
\* can have made to the cache is the removal, by its own lookup, of the expired
\* entry of its key (none at all when it is answered 400 or 500); every change
\* of the cache is such a removal or a step of _cache_set for a good answer.
C25_OnlyGoodCached ==
    /\ [](\A w \in Workers :
             (\/ worker[w].pc \in {"set_check", "set_evict", "set_insert"}
              \/ worker[w].ops \cap {"evict", "insert"} # {}) =>
                 /\ worker[w].outcome = "200"
                 /\ worker[w].body = "valid"
                 /\ worker[w].pc = "respond" => worker[w].status = 200)
    /\ [](\A w \in Workers :
             (worker[w].pc = "respond" /\ worker[w].status \in ErrorStatuses) =>
                 /\ worker[w].ops \subseteq {"pop"}
                 /\ worker[w].status \in {400, 500} => worker[w].ops = {})
    /\ [][ cache' # cache =>
              \E w \in Workers :
                  \/ /\ worker[w].pc \in {"set_evict", "set_insert"}
                     /\ worker[w].outcome = "200"
                     /\ worker[w].body = "valid"
                  \/ /\ worker[w].pc = "idle"
                     /\ worker'[w].pc = "get_timeout"
                     /\ cache_index(cache, worker'[w].key) # 0
                     /\ cache[cache_index(cache, worker'[w].key)].expires_at < now
                     /\ cache' = cache_pop(cache, {worker'[w].key})
          ]_vars

\* a request answered with an error after its lookup removed the expired entry
\* of its key, while a good answer for another key stays cached
C25_Witness ==
    \E w \in Workers :
        /\ worker[w].pc = "respond"
        /\ worker[w].status \in ErrorStatuses
        /\ worker[w].ops = {"pop"}
        /\ cache_index(cache, worker[w].key) = 0
        /\ Len(cache) > 0

====
